---- MODULE Spec2Model ----
(***************************************************************************)
(* Order lifecycle and seat-inventory bookkeeping of the ticket backend.   *)
(*                                                                         *)
(* The database is modelled at the granularity of SQL statements: every    *)
(* `await pool.query(...)` of a handler is one step, so that requests      *)
(* interleave between statements exactly where the event loop lets them.   *)
(* Statements issued on a bare pool autocommit; statements issued inside   *)
(* withTransaction are buffered per request and applied at COMMIT.         *)
(***************************************************************************)
EXTENDS Integers, FiniteSets, Sequences, TLC

\* ---------------------------------------------------------------- bounds
NumRequests == 3     \* requests in one behaviour
NumBookings == 2     \* of them, booking requests that run side by side
NumEvents == 2       \* rows of the events table
InitSeats == 2       \* available_seats of every event at start
NumRefunds == 1      \* rows of the refund_links table

\* ------------------------------------------------------ program constants
MaxSeatsPerOrder == 10          \* upper limit of /api/create-order
HttpOk == 200
HttpBadRequest == 400
HttpNotFound == 404
HttpServerError == 500

\* Every request is handled independently.  Request ids are labels only, so
\* requests are taken to arrive in the order of their ids.
Procs == 1..NumRequests
\* the requests that book in the behaviours about booking alone
Bookers == 1..NumBookings
\* seatsCount values a caller passes (0 stands for "not given"); the largest
\* is more than any event has
SeatInputs == 0..(InitSeats + 1)
EventIds == 1..NumEvents
\* event ids a request may carry: 0 is a missing/falsy id, NumEvents+1 is an
\* id no row has
EventIdInputs == 0..(NumEvents + 1)
\* refund codes that have a row, and the codes a callback may carry
RefundCodes == 1..NumRefunds
RefundCodeInputs == 1..(NumRefunds + 1)

VARIABLES
  events,     \* events.available_seats, committed: [EventIds -> Int]
  orders,     \* committed rows of the orders table (a set of records)
  nextId,     \* the orders id sequence (advances even if the INSERT rolls back)
  lock,       \* row lock on events: 0 = free, p = held by p's transaction
  dbUrlSet,   \* process.env.DATABASE_URL is set
  pc,         \* position of each request handler
  req,        \* the request a handler is serving
  row,        \* the events row the handler read
  orow,       \* the orders row the handler read
  txIns,      \* order rows inserted by the open transaction, not yet committed
  txUpd,      \* seat decrements of the open transaction, not yet committed
  result,     \* the tool's return value
  notified,   \* outcome of the notification Promise.all
  resp,       \* the HTTP response
  refunds,    \* refund_links.status, by refund code
  refundSent, \* approved/rejected refund notifications sent to the channel
  answer      \* what the handler told Telegram with answerCallbackQuery

vars == <<events, orders, nextId, lock, dbUrlSet, pc, req, row, orow,
          txIns, txUpd, result, notified, resp, refunds, refundSent, answer>>

db == <<events, orders>>
locals == <<row, orow, txIns, txUpd, result, notified, resp>>

\* request p arrives: it has not started, and every request before it has
Arrives(p) == pc[p] = "new" /\ \A q \in Procs : q < p => pc[q] # "new"

\* ----------------------------------------------------------------- values
NoReq == [op |-> "none", via |-> "none", eventId |-> 0, seatsCount |-> 0,
          orderId |-> 0, action |-> "none", refundCode |-> 0]
NoRow == [found |-> FALSE, id |-> 0, available_seats |-> 0]
NoOrderRow == [found |-> FALSE, id |-> 0, event_id |-> 0, seats_count |-> 0,
               status |-> "none", payment_status |-> "none"]
NoResult == [success |-> FALSE, reason |-> "none", orderId |-> 0,
             seatsCount |-> 0]
NoResp == [status |-> 0, success |-> FALSE, orderId |-> 0]

Order(id, eventId, seats, st, pay, code) ==
  [id |-> id, event_id |-> eventId, seats_count |-> seats, status |-> st,
   payment_status |-> pay, order_code |-> code]

RECURSIVE SumSeats(_)
SumSeats(S) ==
  IF S = {} THEN 0
  ELSE LET o == CHOOSE x \in S : TRUE IN o.seats_count + SumSeats(S \ {o})

OrdersOf(e) == {o \in orders : o.event_id = e}

\* -------------------------------------------------- request body parsing
\* body.seatsCount of /api/create-order as it arrives in the JSON body
SeatsBodies ==
  [kind : {"number"}, n : SeatInputs \cup {MaxSeatsPerOrder + 1}]
    \cup {[kind |-> "text", n |-> 0], [kind |-> "missing", n |-> 0]}

\* parseInt(body.seatsCount): NaN for anything that is not a number
ParseInt(b) ==
  [nan |-> b.kind # "number", n |-> IF b.kind = "number" THEN b.n ELSE 0]

\* bodies of POST /api/create-order: the well-formed ones, and for every
\* validation rule bodies that break that rule alone
GoodSeatsBodies == {b \in SeatsBodies : b.kind = "number" /\ b.n \in 1..MaxSeatsPerOrder}

CreateOrderBodies ==
  [eventId : EventIdInputs \ {0}, nameOk : {TRUE}, phoneOk : {TRUE},
   seatsCount : GoodSeatsBodies]
    \cup [eventId : {0}, nameOk : {TRUE}, phoneOk : {TRUE},
          seatsCount : {[kind |-> "number", n |-> 1]}]
    \cup [eventId : {1}, nameOk : {FALSE}, phoneOk : {TRUE},
          seatsCount : {[kind |-> "number", n |-> 1]}]
    \cup [eventId : {1}, nameOk : {TRUE}, phoneOk : {FALSE},
          seatsCount : {[kind |-> "number", n |-> 1]}]
    \cup [eventId : {1}, nameOk : {TRUE}, phoneOk : {TRUE},
          seatsCount : SeatsBodies \ GoodSeatsBodies]

\* the four validation guards of /api/create-order
ValidCreateOrderBody(b) ==
  /\ b.eventId # 0
  /\ b.nameOk
  /\ b.phoneOk
  /\ ~ParseInt(b.seatsCount).nan
  /\ ParseInt(b.seatsCount).n >= 1
  /\ ParseInt(b.seatsCount).n <= MaxSeatsPerOrder

\* ------------------------------------------------------- createOrderTool
\* const seatsCount = context.seatsCount || 1
SeatsOrDefaultRaw(s) == s
SeatsOrDefault(s) == IF s = 0 THEN 1 ELSE s

\* if (event.available_seats < seatsCount)
NotEnoughSeatsOffByOne(avail, seats) == avail + 1 < seats
NotEnoughSeats(avail, seats) == avail < seats

\* SELECT ... FOR UPDATE waits until no other transaction holds the row
RowLockNotTaken(p, e) == TRUE
RowLockFree(p, e) == lock[e] = 0 \/ lock[e] = p

\* the row written by the tool's INSERT
ToolOrderRowConfirmed(id, eventId, seats) ==
  Order(id, eventId, seats, "confirmed", "confirmed", "ORD")
ToolOrderRow(id, eventId, seats) ==
  Order(id, eventId, seats, "pending", "pending", "ORD")

\* what ROLLBACK leaves in the orders table
OrdersKeptOnRollback(p) == orders \cup txIns[p]
OrdersAfterRollback(p) == orders

\* what COMMIT makes visible
OrdersAfterCommit(p) == orders \cup txIns[p]
EventsAfterCommit(p) ==
  [e \in EventIds |->
     events[e] - SumSeats({u \in txUpd[p] : u.event_id = e})]

ReleaseLocks(p) == [e \in EventIds |-> IF lock[e] = p THEN 0 ELSE lock[e]]

\* the handler keeps nothing of a request's inputs once its work is done
Served(r) == [NoReq EXCEPT !.op = r.op, !.via = r.via]

\* return c.json(result) of /api/create-order
CreateOrderResponseUncaught(res, outcome) ==
  IF outcome = "throw"
    THEN [status |-> HttpServerError, success |-> FALSE, orderId |-> 0]
    ELSE [status |-> HttpOk, success |-> res.success, orderId |-> res.orderId]
CreateOrderResponse(res, outcome) ==
  [status |-> HttpOk, success |-> res.success, orderId |-> res.orderId]

\* The tool returns res to its caller.  A direct caller is done.  The handler
\* of /api/create-order goes on to notify when an order was created, and
\* answers c.json(result) at once otherwise; once it has answered, the
\* result lives on in the response only.
ToolReturns(p, res) ==
  /\ req' = [req EXCEPT ![p] = Served(req[p])]
  /\ IF req[p].via = "api"
       THEN IF res.success /\ res.orderId # 0
              THEN /\ pc' = [pc EXCEPT ![p] = "notify"]
                   /\ result' = [result EXCEPT ![p] = res]
                   /\ UNCHANGED resp
              ELSE /\ pc' = [pc EXCEPT ![p] = "done"]
                   /\ result' = [result EXCEPT ![p] = NoResult]
                   /\ resp' = [resp EXCEPT ![p] = CreateOrderResponse(res, "none")]
       ELSE /\ pc' = [pc EXCEPT ![p] = "done"]
            /\ result' = [result EXCEPT ![p] = res]
            /\ UNCHANGED resp

\* execute(): getPool(), then withTransaction's connect and BEGIN
ToolStart(p, via, eventId, seatsCount) ==
  LET r == [NoReq EXCEPT !.op = "createOrder", !.via = via,
                         !.eventId = eventId, !.seatsCount = seatsCount] IN
  /\ req' = [req EXCEPT ![p] = IF dbUrlSet THEN r ELSE Served(r)]
  /\ IF dbUrlSet
       THEN /\ pc' = [pc EXCEPT ![p] = "select"]
            /\ UNCHANGED <<result, resp>>
       ELSE /\ pc' = [pc EXCEPT ![p] = "done"]
            /\ IF via = "api"
                 THEN /\ resp' = [resp EXCEPT ![p] = CreateOrderResponse(
                                     [NoResult EXCEPT !.reason = "nodb"], "none")]
                      /\ UNCHANGED result
                 ELSE /\ result' = [result EXCEPT ![p] =
                                      [NoResult EXCEPT !.reason = "nodb"]]
                      /\ UNCHANGED resp

\* the agent calls the tool directly
CallCreateOrderTool(p, eventId, seatsCount) ==
  /\ Arrives(p)
  /\ ToolStart(p, "tool", eventId, seatsCount)
  /\ UNCHANGED <<db, nextId, lock, dbUrlSet, refunds, refundSent, answer, row, orow, txIns, txUpd, notified>>

\* POST /api/create-order up to the call of the tool
ApiCreateOrder(p, body) ==
  /\ Arrives(p)
  /\ IF ValidCreateOrderBody(body)
       THEN ToolStart(p, "api", body.eventId, ParseInt(body.seatsCount).n)
       ELSE /\ req' = [req EXCEPT ![p] = [NoReq EXCEPT !.op = "createOrder",
                                                       !.via = "api"]]
            /\ resp' = [resp EXCEPT ![p] =
                          [NoResp EXCEPT !.status = HttpBadRequest]]
            /\ pc' = [pc EXCEPT ![p] = "done"]
            /\ UNCHANGED result
  /\ UNCHANGED <<db, nextId, lock, dbUrlSet, refunds, refundSent, answer, row, orow, txIns, txUpd, notified>>

\* SELECT e.* ... WHERE e.id = $1 FOR UPDATE, and the two early returns, which
\* leave fn normally and therefore reach COMMIT
ToolSelect(p) ==
  /\ pc[p] = "select"
  /\ req[p].op = "createOrder"
  /\ LET e == req[p].eventId
         seats == SeatsOrDefault(req[p].seatsCount) IN
     IF e \notin EventIds
       THEN /\ result' = [result EXCEPT ![p] =
                            [NoResult EXCEPT !.reason = "notfound"]]
            /\ pc' = [pc EXCEPT ![p] = "commit"]
            /\ UNCHANGED lock
       ELSE /\ RowLockFree(p, e)
            /\ lock' = [lock EXCEPT ![e] = p]
            /\ IF NotEnoughSeats(events[e], seats)
                 THEN /\ result' = [result EXCEPT ![p] =
                                      [NoResult EXCEPT !.reason = "noseats"]]
                      /\ pc' = [pc EXCEPT ![p] = "commit"]
                 ELSE /\ pc' = [pc EXCEPT ![p] = "insert"]
                      /\ UNCHANGED result
  /\ UNCHANGED <<db, nextId, dbUrlSet, refunds, refundSent, answer, req, row, orow, txIns, txUpd,
                 notified, resp>>

\* INSERT INTO orders ... 'pending', 'pending' RETURNING id
ToolInsert(p) ==
  /\ pc[p] = "insert"
  /\ req[p].op = "createOrder"
  /\ LET seats == SeatsOrDefault(req[p].seatsCount) IN
     /\ txIns' = [txIns EXCEPT ![p] =
                    {ToolOrderRow(nextId, req[p].eventId, seats)}]
     /\ result' = [result EXCEPT ![p] =
                     [success |-> TRUE, reason |-> "created",
                      orderId |-> nextId, seatsCount |-> seats]]
  /\ nextId' = nextId + 1
  /\ pc' = [pc EXCEPT ![p] = "update"]
  /\ UNCHANGED <<db, lock, dbUrlSet, refunds, refundSent, answer, req, row, orow, txUpd, notified, resp>>

\* UPDATE events SET available_seats = available_seats - $1 WHERE id = $2
ToolUpdate(p) ==
  /\ pc[p] = "update"
  /\ req[p].op = "createOrder"
  /\ txUpd' = [txUpd EXCEPT ![p] =
                 {[event_id |-> req[p].eventId,
                   seats_count |-> SeatsOrDefault(req[p].seatsCount)]}]
  /\ pc' = [pc EXCEPT ![p] = "commit"]
  /\ UNCHANGED <<db, nextId, lock, dbUrlSet, refunds, refundSent, answer, req, row, orow, txIns,
                 result, notified, resp>>

\* withTransaction: COMMIT, release, return fn's result
TxCommit(p) ==
  /\ pc[p] = "commit"
  /\ req[p].op = "createOrder"
  /\ orders' = OrdersAfterCommit(p)
  /\ events' = EventsAfterCommit(p)
  /\ lock' = ReleaseLocks(p)
  /\ txIns' = [txIns EXCEPT ![p] = {}]
  /\ txUpd' = [txUpd EXCEPT ![p] = {}]
  /\ ToolReturns(p, result[p])
  /\ UNCHANGED <<nextId, dbUrlSet, refunds, refundSent, answer, row, orow, notified>>

\* A statement of the transaction (BEGIN and COMMIT included) throws:
\* withTransaction's catch issues ROLLBACK and rethrows, execute's catch
\* returns the failure result.
TxFail(p) ==
  /\ pc[p] \in {"select", "insert", "update", "commit"}
  /\ req[p].op = "createOrder"
  /\ orders' = OrdersAfterRollback(p)
  /\ lock' = ReleaseLocks(p)
  /\ txIns' = [txIns EXCEPT ![p] = {}]
  /\ txUpd' = [txUpd EXCEPT ![p] = {}]
  /\ ToolReturns(p, [NoResult EXCEPT !.reason = "error"])
  /\ UNCHANGED <<events, nextId, dbUrlSet, refunds, refundSent, answer, row, orow, notified>>

\* --------------------------------------- /api/create-order after the tool
\* what one notification call does: resolve true, resolve false, or reject
NotifyOutcomes == {"sent", "false", "throw"}

\* Promise.all of the channel and the admin notification
PromiseAll(channel, admin) ==
  IF channel = "throw" \/ admin = "throw" THEN "throw"
  ELSE IF channel = "sent" /\ admin = "sent" THEN "sent"
  ELSE "false"

\* await Promise.all([sendChannelNotification, sendOrderNotificationToAdmin])
\* inside try/catch, then return c.json(result)
ApiNotify(p, channel, admin) ==
  /\ pc[p] = "notify"
  /\ notified' = [notified EXCEPT ![p] = PromiseAll(channel, admin)]
  /\ resp' = [resp EXCEPT ![p] =
                CreateOrderResponse(result[p], PromiseAll(channel, admin))]
  /\ result' = [result EXCEPT ![p] = NoResult]
  /\ pc' = [pc EXCEPT ![p] = "done"]
  /\ UNCHANGED <<db, nextId, lock, dbUrlSet, refunds, refundSent, answer, req, row, orow, txIns, txUpd>>

\* ------------------------------------------- POST /api/create-ticket-order
\* The INSERT names no payment_status: the row gets the column's default.
PaymentStatusDefault == "pending"

\* the row written by the INSERT of /api/create-ticket-order
TicketOrderRow(id, eventId, seats) ==
  Order(id, eventId, seats, "pending", PaymentStatusDefault, "TK")

\* an UPDATE of an events row waits while a transaction holds the row's lock
EventRowWritable(e) == e \notin EventIds \/ lock[e] = 0

\* events after UPDATE events SET available_seats = available_seats + n
\* WHERE id = e (no row matches an id that is NULL or unknown)
EventsPlusOne(e, n) ==
  [x \in EventIds |-> IF x = e THEN events[x] + 1 ELSE events[x]]
EventsPlus(e, n) ==
  [x \in EventIds |-> IF x = e THEN events[x] + n ELSE events[x]]

\* A handler that opens its own pool has no database to talk to when
\* DATABASE_URL is unset: its first query throws and its catch answers 500.
BarePoolStatus(status) == IF dbUrlSet THEN status ELSE HttpServerError

\* SELECT ... FROM events e WHERE e.slug = $1 on a bare pool (no lock), and
\* the two early answers, which carry no status and so go out as 200
TicketSelect(p, slugEvent, seatsCount) ==
  /\ Arrives(p)
  /\ IF ~dbUrlSet \/ slugEvent \notin EventIds
         \/ events[slugEvent] < seatsCount
       THEN /\ req' = [req EXCEPT ![p] = [NoReq EXCEPT !.op = "ticketOrder",
                                                       !.via = "api"]]
            /\ resp' = [resp EXCEPT ![p] =
                          [NoResp EXCEPT !.status = BarePoolStatus(HttpOk)]]
            /\ pc' = [pc EXCEPT ![p] = "done"]
            /\ UNCHANGED row
       ELSE /\ req' = [req EXCEPT ![p] =
                         [NoReq EXCEPT !.op = "ticketOrder", !.via = "api",
                                       !.eventId = slugEvent,
                                       !.seatsCount = seatsCount]]
            /\ row' = [row EXCEPT ![p] =
                         [found |-> TRUE, id |-> slugEvent,
                          available_seats |-> events[slugEvent]]]
            /\ pc' = [pc EXCEPT ![p] = "tinsert"]
            /\ UNCHANGED resp
  /\ UNCHANGED <<db, nextId, lock, dbUrlSet, refunds, refundSent, answer, orow, txIns, txUpd, result,
                 notified>>

\* INSERT INTO orders (..., status) VALUES (..., 'pending'), autocommitted
TicketInsert(p) ==
  /\ pc[p] = "tinsert"
  /\ orders' = orders \cup
                 {TicketOrderRow(nextId, row[p].id, req[p].seatsCount)}
  /\ result' = [result EXCEPT ![p] =
                  [success |-> TRUE, reason |-> "created",
                   orderId |-> nextId, seatsCount |-> req[p].seatsCount]]
  /\ nextId' = nextId + 1
  /\ pc' = [pc EXCEPT ![p] = "tupdate"]
  /\ UNCHANGED <<events, lock, dbUrlSet, refunds, refundSent, answer, req, row, orow, txIns, txUpd,
                 notified, resp>>

\* UPDATE events SET available_seats = available_seats - $1, autocommitted;
\* then the notifications inside try/catch and c.json({ success: true })
TicketUpdate(p) ==
  /\ pc[p] = "tupdate"
  /\ EventRowWritable(row[p].id)
  /\ events' = EventsPlus(row[p].id, 0 - req[p].seatsCount)
  /\ resp' = [resp EXCEPT ![p] =
                [status |-> HttpOk, success |-> TRUE,
                 orderId |-> result[p].orderId]]
  /\ req' = [req EXCEPT ![p] = Served(req[p])]
  /\ row' = [row EXCEPT ![p] = NoRow]
  /\ pc' = [pc EXCEPT ![p] = "done"]
  /\ UNCHANGED <<orders, nextId, lock, dbUrlSet, refunds, refundSent, answer, orow, txIns, txUpd, result,
                 notified>>

\* a statement on the bare pool throws: the handler's catch answers 500 and
\* whatever was written before stays written
TicketFail(p) ==
  /\ pc[p] \in {"tinsert", "tupdate"}
  /\ resp' = [resp EXCEPT ![p] = [NoResp EXCEPT !.status = HttpServerError]]
  /\ req' = [req EXCEPT ![p] = Served(req[p])]
  /\ row' = [row EXCEPT ![p] = NoRow]
  /\ pc' = [pc EXCEPT ![p] = "done"]
  /\ UNCHANGED <<db, nextId, lock, dbUrlSet, refunds, refundSent, answer, orow, txIns, txUpd, result,
                 notified>>

\* ------------------- POST /api/create-link-order, /api/create-template-order
\* the rows written by the two INSERTs: event_id is NULL (0 here)
LinkOrderRow(id, seats) == Order(id, 0, seats, "pending", "pending", "LNK")
TemplateOrderRow(id, seats) == Order(id, 0, seats, "pending", "pending", "TPL")

\* parseInt(body.seatsCount) || 1
ParsedSeatsOrOne(b) ==
  IF ParseInt(b).nan \/ ParseInt(b).n = 0 THEN 1 ELSE ParseInt(b).n

\* /api/create-link-order: validation, the link lookup, the single INSERT
ApiCreateLinkOrder(p, bodyOk, linkFound, seatsBody) ==
  /\ Arrives(p)
  /\ req' = [req EXCEPT ![p] = [NoReq EXCEPT !.op = "linkOrder",
                                             !.via = "api"]]
  /\ pc' = [pc EXCEPT ![p] = "done"]
  /\ LET seats == ParsedSeatsOrOne(seatsBody) IN
     IF ~bodyOk \/ seats < 1 \/ seats > MaxSeatsPerOrder
       THEN /\ resp' = [resp EXCEPT ![p] =
                          [NoResp EXCEPT !.status = HttpBadRequest]]
            /\ UNCHANGED <<orders, nextId>>
     ELSE IF ~dbUrlSet \/ ~linkFound
       THEN /\ resp' = [resp EXCEPT ![p] =
                          [NoResp EXCEPT !.status =
                                           BarePoolStatus(HttpBadRequest)]]
            /\ UNCHANGED <<orders, nextId>>
       ELSE /\ orders' = orders \cup {LinkOrderRow(nextId, seats)}
            /\ nextId' = nextId + 1
            /\ resp' = [resp EXCEPT ![p] =
                          [status |-> HttpOk, success |-> TRUE,
                           orderId |-> nextId]]
  /\ UNCHANGED <<events, lock, dbUrlSet, refunds, refundSent, answer, row, orow, txIns, txUpd, result,
                 notified>>

\* /api/create-template-order: validation (seatsCount is not range-checked),
\* the template lookup, the single INSERT
ApiCreateTemplateOrder(p, bodyOk, templateFound, seatsBody) ==
  /\ Arrives(p)
  /\ req' = [req EXCEPT ![p] = [NoReq EXCEPT !.op = "templateOrder",
                                             !.via = "api"]]
  /\ pc' = [pc EXCEPT ![p] = "done"]
  /\ IF ~bodyOk
       THEN /\ resp' = [resp EXCEPT ![p] =
                          [NoResp EXCEPT !.status = HttpBadRequest]]
            /\ UNCHANGED <<orders, nextId>>
     ELSE IF ~dbUrlSet \/ ~templateFound
       THEN /\ resp' = [resp EXCEPT ![p] =
                          [NoResp EXCEPT !.status =
                                           BarePoolStatus(HttpBadRequest)]]
            /\ UNCHANGED <<orders, nextId>>
       ELSE /\ orders' = orders \cup
                 {TemplateOrderRow(nextId, ParsedSeatsOrOne(seatsBody))}
            /\ nextId' = nextId + 1
            /\ resp' = [resp EXCEPT ![p] =
                          [status |-> HttpOk, success |-> TRUE,
                           orderId |-> nextId]]
  /\ UNCHANGED <<events, lock, dbUrlSet, refunds, refundSent, answer, row, orow, txIns, txUpd, result,
                 notified>>

\* -------------------------------------------------------- manageOrderTool
ManageActions == {"confirm_payment", "reject_payment", "cancel"}

\* the orders row with this id, as a SELECT returns it
OrderRowById(id) ==
  IF \E o \in orders : o.id = id
    THEN LET o == CHOOSE x \in orders : x.id = id IN
         [found |-> TRUE, id |-> o.id, event_id |-> o.event_id,
          seats_count |-> o.seats_count, status |-> o.status,
          payment_status |-> o.payment_status]
    ELSE NoOrderRow

\* orders after UPDATE orders SET status = st, payment_status = pay WHERE id
OrdersWithStatus(id, st, pay) ==
  {IF o.id = id THEN [o EXCEPT !.status = st, !.payment_status = pay] ELSE o
     : o \in orders}

\* orders after UPDATE orders SET status = st WHERE id
OrdersWithStatusOnly(id, st) ==
  {IF o.id = id THEN [o EXCEPT !.status = st] ELSE o : o \in orders}

ManageDone(p, ok, reason) ==
  /\ result' = [result EXCEPT ![p] =
                  [success |-> ok, reason |-> reason,
                   orderId |-> orow[p].id, seatsCount |-> orow[p].seats_count]]
  /\ req' = [req EXCEPT ![p] = Served(req[p])]
  /\ orow' = [orow EXCEPT ![p] = NoOrderRow]
  /\ pc' = [pc EXCEPT ![p] = "done"]

\* execute(): getPool(), the order lookup (by event, then by template)
ManageSelect(p, action, orderId) ==
  /\ Arrives(p)
  /\ IF ~dbUrlSet \/ ~OrderRowById(orderId).found
       THEN /\ req' = [req EXCEPT ![p] = [NoReq EXCEPT !.op = "manage",
                                                       !.via = "tool",
                                                       !.action = action]]
            /\ result' = [result EXCEPT ![p] =
                            [NoResult EXCEPT !.reason =
                               IF dbUrlSet THEN "notfound" ELSE "nodb"]]
            /\ pc' = [pc EXCEPT ![p] = "done"]
            /\ UNCHANGED orow
       ELSE /\ req' = [req EXCEPT ![p] = [NoReq EXCEPT !.op = "manage",
                                                       !.via = "tool",
                                                       !.action = action,
                                                       !.orderId = orderId]]
            /\ orow' = [orow EXCEPT ![p] = OrderRowById(orderId)]
            /\ pc' = [pc EXCEPT ![p] = "mupdate"]
            /\ UNCHANGED result
  /\ UNCHANGED <<db, nextId, lock, dbUrlSet, refunds, refundSent, answer, row, txIns, txUpd, notified, resp>>

\* confirm_payment: one UPDATE orders
ManageConfirm(p) ==
  /\ pc[p] = "mupdate"
  /\ req[p].action = "confirm_payment"
  /\ orders' = OrdersWithStatus(orow[p].id, "confirmed", "confirmed")
  /\ ManageDone(p, TRUE, "confirmed")
  /\ UNCHANGED <<events, nextId, lock, dbUrlSet, refunds, refundSent, answer, row, txIns, txUpd, notified,
                 resp>>

\* reject_payment, first statement: UPDATE orders
ManageReject(p) ==
  /\ pc[p] = "mupdate"
  /\ req[p].action = "reject_payment"
  /\ orders' = OrdersWithStatus(orow[p].id, "rejected", "rejected")
  /\ pc' = [pc EXCEPT ![p] = "mseats"]
  /\ UNCHANGED <<events, nextId, lock, dbUrlSet, refunds, refundSent, answer, req, locals>>

\* if (row.payment_status !== "rejected")
CancelReturnsSeatsAlways(r) == TRUE
CancelReturnsSeats(r) == r.payment_status # "rejected"

\* cancel, first statement: UPDATE orders; the second statement is skipped
\* when the row read at the start had payment_status 'rejected'
ManageCancel(p) ==
  /\ pc[p] = "mupdate"
  /\ req[p].action = "cancel"
  /\ orders' = OrdersWithStatusOnly(orow[p].id, "cancelled")
  /\ IF CancelReturnsSeats(orow[p])
       THEN /\ pc' = [pc EXCEPT ![p] = "mseats"]
            /\ UNCHANGED <<req, orow, result>>
       ELSE ManageDone(p, TRUE, "cancelled")
  /\ UNCHANGED <<events, nextId, lock, dbUrlSet, refunds, refundSent, answer, row, txIns, txUpd, notified,
                 resp>>

\* reject_payment and cancel, second statement:
\* UPDATE events SET available_seats = available_seats + $1 WHERE id = $2
ManageReturnSeats(p) ==
  /\ pc[p] = "mseats"
  /\ EventRowWritable(orow[p].event_id)
  /\ events' = EventsPlus(orow[p].event_id, orow[p].seats_count)
  /\ ManageDone(p, TRUE,
                IF req[p].action = "cancel" THEN "cancelled" ELSE "rejected")
  /\ UNCHANGED <<orders, nextId, lock, dbUrlSet, refunds, refundSent, answer, row, txIns, txUpd, notified,
                 resp>>

\* a statement throws: execute's catch returns the failure result and
\* whatever was written before stays written
ManageFail(p) ==
  /\ pc[p] \in {"mupdate", "mseats"}
  /\ ManageDone(p, FALSE, "error")
  /\ UNCHANGED <<db, nextId, lock, dbUrlSet, refunds, refundSent, answer, row, txIns, txUpd, notified, resp>>

\* -------------------------------------- POST /api/ticket-order/:code/mark-paid
\* the order lookup (by event, then by template); 404 when there is no row
MarkPaidSelect(p, orderId) ==
  /\ Arrives(p)
  /\ IF ~dbUrlSet \/ ~OrderRowById(orderId).found
       THEN /\ req' = [req EXCEPT ![p] = [NoReq EXCEPT !.op = "markPaid",
                                                       !.via = "api"]]
            /\ resp' = [resp EXCEPT ![p] =
                          [NoResp EXCEPT !.status =
                                           BarePoolStatus(HttpNotFound)]]
            /\ pc' = [pc EXCEPT ![p] = "done"]
            /\ UNCHANGED orow
       ELSE /\ req' = [req EXCEPT ![p] = [NoReq EXCEPT !.op = "markPaid",
                                                       !.via = "api",
                                                       !.orderId = orderId]]
            /\ orow' = [orow EXCEPT ![p] = OrderRowById(orderId)]
            /\ pc' = [pc EXCEPT ![p] = "pupdate"]
            /\ UNCHANGED resp
  /\ UNCHANGED <<db, nextId, lock, dbUrlSet, refunds, refundSent, answer, row, txIns, txUpd, result,
                 notified>>

\* UPDATE orders SET status='waiting_confirmation' WHERE order_code=$1, then
\* the notifications inside try/catch and c.json({ success: true })
MarkPaidUpdate(p) ==
  /\ pc[p] = "pupdate"
  /\ orders' = OrdersWithStatusOnly(orow[p].id, "waiting_confirmation")
  /\ resp' = [resp EXCEPT ![p] =
                [status |-> HttpOk, success |-> TRUE, orderId |-> orow[p].id]]
  /\ req' = [req EXCEPT ![p] = Served(req[p])]
  /\ orow' = [orow EXCEPT ![p] = NoOrderRow]
  /\ pc' = [pc EXCEPT ![p] = "done"]
  /\ UNCHANGED <<events, nextId, lock, dbUrlSet, refunds, refundSent, answer, row, txIns, txUpd, result,
                 notified>>

\* the UPDATE throws: the handler's catch answers 500
MarkPaidFail(p) ==
  /\ pc[p] = "pupdate"
  /\ resp' = [resp EXCEPT ![p] = [NoResp EXCEPT !.status = HttpServerError]]
  /\ req' = [req EXCEPT ![p] = Served(req[p])]
  /\ orow' = [orow EXCEPT ![p] = NoOrderRow]
  /\ pc' = [pc EXCEPT ![p] = "done"]
  /\ UNCHANGED <<db, nextId, lock, dbUrlSet, refunds, refundSent, answer, row, txIns, txUpd, result,
                 notified>>

\* ------------------ POST /webhooks/telegram/callback (telegramTriggers.ts)
\* callback data confirm_<id>, reject_<id>, or anything else
CallbackData == {"confirm", "reject", "other"}

\* const newStatus = action === "confirm" ? "confirmed" : "rejected"
CallbackStatus(cb) == IF cb = "confirm" THEN "confirmed" ELSE "rejected"

\* newStatus === "confirmed" ? "paid" : "failed"
CallbackPaymentStatus(st) == IF st = "confirmed" THEN "paid" ELSE "failed"

\* orders after UPDATE orders SET status = $1, payment_status = $2 WHERE id = $3
OrdersAfterCallback(id, cb) ==
  OrdersWithStatus(id, CallbackStatus(cb),
                   CallbackPaymentStatus(CallbackStatus(cb)))

\* the handler up to its SELECT, with its early answers
CallbackSelect(p, cb, orderId) ==
  /\ Arrives(p)
  /\ resp' = [resp EXCEPT ![p] = [NoResp EXCEPT !.status = HttpOk]]
  /\ IF cb \notin {"confirm", "reject"} \/ orderId = 0 \/ ~dbUrlSet
         \/ ~OrderRowById(orderId).found
       THEN /\ req' = [req EXCEPT ![p] = [NoReq EXCEPT !.op = "callback",
                                                       !.via = "api"]]
            /\ answer' = [answer EXCEPT ![p] =
                 IF cb \notin {"confirm", "reject"} \/ orderId = 0
                   THEN "unknown"
                 ELSE IF ~dbUrlSet THEN "nodb" ELSE "notfound"]
            /\ pc' = [pc EXCEPT ![p] = "done"]
            /\ UNCHANGED orow
       ELSE /\ req' = [req EXCEPT ![p] = [NoReq EXCEPT !.op = "callback",
                                                       !.via = "api",
                                                       !.action = cb,
                                                       !.orderId = orderId]]
            /\ orow' = [orow EXCEPT ![p] = OrderRowById(orderId)]
            /\ pc' = [pc EXCEPT ![p] = "cbupdate"]
            /\ UNCHANGED answer
  /\ UNCHANGED <<db, nextId, lock, dbUrlSet, refunds, refundSent, row, txIns,
                 txUpd, result, notified>>

\* the UPDATE, then the message edit and the answer to the callback query
CallbackUpdate(p) ==
  /\ pc[p] = "cbupdate"
  /\ orders' = OrdersAfterCallback(req[p].orderId, req[p].action)
  /\ answer' = [answer EXCEPT ![p] = CallbackStatus(req[p].action)]
  /\ req' = [req EXCEPT ![p] = Served(req[p])]
  /\ orow' = [orow EXCEPT ![p] = NoOrderRow]
  /\ pc' = [pc EXCEPT ![p] = "done"]
  /\ UNCHANGED <<events, nextId, lock, dbUrlSet, refunds, refundSent, row,
                 txIns, txUpd, result, notified, resp>>

\* the UPDATE throws: catch (dbError) answers the callback query
CallbackFail(p) ==
  /\ pc[p] = "cbupdate"
  /\ answer' = [answer EXCEPT ![p] = "error"]
  /\ req' = [req EXCEPT ![p] = Served(req[p])]
  /\ orow' = [orow EXCEPT ![p] = NoOrderRow]
  /\ pc' = [pc EXCEPT ![p] = "done"]
  /\ UNCHANGED <<db, nextId, lock, dbUrlSet, refunds, refundSent, row,
                 txIns, txUpd, result, notified, resp>>

\* --------------- POST /webhooks/telegram/action, order callbacks (index.ts)
\* confirm -> manageOrderTool confirm_payment, reject -> reject_payment
WebhookOrderAction(cb) ==
  IF cb = "confirm" THEN "confirm_payment" ELSE "reject_payment"

\* the database a whole run of manageOrderTool leaves for that action: the
\* UPDATE of the order and, for reject_payment, the UPDATE of its event
ManageDb(action, id) ==
  IF action = "confirm_payment"
    THEN <<OrdersWithStatus(id, "confirmed", "confirmed"), events>>
    ELSE <<OrdersWithStatus(id, "rejected", "rejected"),
           EventsPlus(OrderRowById(id).event_id, OrderRowById(id).seats_count)>>

ActionHandlerDb(cb, id) == ManageDb(WebhookOrderAction(cb), id)

\* --------------- POST /webhooks/telegram/action, refund callbacks (index.ts)
\* refund_approve_<code> and refund_reject_<code>
RefundActions == {"approve", "reject"}

\* if (refund.status === "approved" || refund.status === "rejected")
RefundDecidedIfApproved(st) == st = "approved"
RefundDecided(st) == st \in {"approved", "rejected"}

\* const newStatus = refundAction === "approve" ? "approved" : "rejected"
RefundNewStatus(a) == IF a = "approve" THEN "approved" ELSE "rejected"

\* SELECT * FROM refund_links WHERE refund_code = $1 and the early answers:
\* no row, or a row that is already decided
RefundSelect(p, refundAction, code) ==
  /\ Arrives(p)
  /\ req' = [req EXCEPT ![p] = [NoReq EXCEPT !.op = "refund", !.via = "api",
                                             !.action = refundAction,
                                             !.refundCode = code]]
  /\ resp' = [resp EXCEPT ![p] = [NoResp EXCEPT !.status = HttpOk]]
  /\ IF ~dbUrlSet
       THEN /\ answer' = [answer EXCEPT ![p] = "error"]
            /\ pc' = [pc EXCEPT ![p] = "done"]
     ELSE IF code \notin RefundCodes
       THEN /\ answer' = [answer EXCEPT ![p] = "notfound"]
            /\ pc' = [pc EXCEPT ![p] = "done"]
     ELSE IF RefundDecided(refunds[code])
       THEN /\ answer' = [answer EXCEPT ![p] = "already"]
            /\ pc' = [pc EXCEPT ![p] = "done"]
       ELSE /\ pc' = [pc EXCEPT ![p] = "rupdate"]
            /\ UNCHANGED answer
  /\ UNCHANGED <<db, nextId, lock, dbUrlSet, refunds, refundSent, row, orow,
                 txIns, txUpd, result, notified>>

\* UPDATE refund_links SET status = $1, processed_at = ... WHERE refund_code
RefundUpdate(p) ==
  /\ pc[p] = "rupdate"
  /\ refunds' = [refunds EXCEPT ![req[p].refundCode] =
                   RefundNewStatus(req[p].action)]
  /\ pc' = [pc EXCEPT ![p] = "rnotify"]
  /\ UNCHANGED <<db, nextId, lock, dbUrlSet, refundSent, answer, req, locals>>

\* sendRefundApprovedNotification / sendRefundRejectedNotification (which
\* resolve false instead of throwing), then the answer to the callback
\* query.  A later failure of the message edit reaches the catch, whose
\* second answer to the same callback query comes after this one.
RefundNotify(p, sent) ==
  /\ pc[p] = "rnotify"
  /\ refundSent' = [refundSent EXCEPT ![req[p].refundCode] =
                      @ + (IF sent THEN 1 ELSE 0)]
  /\ answer' = [answer EXCEPT ![p] = RefundNewStatus(req[p].action)]
  /\ pc' = [pc EXCEPT ![p] = "done"]
  /\ UNCHANGED <<db, nextId, lock, dbUrlSet, refunds, req, locals>>

\* the UPDATE throws: the catch answers the callback query
RefundFail(p) ==
  /\ pc[p] = "rupdate"
  /\ answer' = [answer EXCEPT ![p] = "error"]
  /\ pc' = [pc EXCEPT ![p] = "done"]
  /\ UNCHANGED <<db, nextId, lock, dbUrlSet, refunds, refundSent, req, locals>>

\* ------------------------------------------------ GET /api/ticket/:orderCode
\* the answer for the row the lookup found: 404 without a row, pending
\* unless payment_status is 'confirmed', the ticket otherwise
TicketAnswerUnlessRejected(r) ==
  IF ~r.found
    THEN [status |-> HttpNotFound, success |-> FALSE, orderId |-> 0,
          pending |-> FALSE, ticket |-> 0]
  ELSE IF r.payment_status = "rejected"
    THEN [status |-> HttpOk, success |-> TRUE, orderId |-> 0,
          pending |-> TRUE, ticket |-> 0]
    ELSE [status |-> HttpOk, success |-> TRUE, orderId |-> r.id,
          pending |-> FALSE, ticket |-> r.id]
TicketAnswer(r) ==
  IF ~r.found
    THEN [status |-> HttpNotFound, success |-> FALSE, orderId |-> 0,
          pending |-> FALSE, ticket |-> 0]
  ELSE IF r.payment_status # "confirmed"
    THEN [status |-> HttpOk, success |-> TRUE, orderId |-> 0,
          pending |-> TRUE, ticket |-> 0]
    ELSE [status |-> HttpOk, success |-> TRUE, orderId |-> r.id,
          pending |-> FALSE, ticket |-> r.id]

\* the handler only reads: the lookup (by template, then by event) and the
\* answer are one step; a query that throws is answered 500 by the catch
ApiGetTicket(p, orderId, throws) ==
  /\ Arrives(p)
  /\ req' = [req EXCEPT ![p] = [NoReq EXCEPT !.op = "ticket", !.via = "api"]]
  /\ resp' = [resp EXCEPT ![p] =
                IF ~dbUrlSet \/ throws
                  THEN [status |-> HttpServerError, success |-> FALSE,
                        orderId |-> 0, pending |-> FALSE, ticket |-> 0]
                  ELSE TicketAnswer(OrderRowById(orderId))]
  /\ pc' = [pc EXCEPT ![p] = "done"]
  /\ UNCHANGED <<db, nextId, lock, dbUrlSet, refunds, refundSent, answer, row,
                 orow, txIns, txUpd, result, notified>>

\* ------------------------------------------------------------------ Init
Init ==
  /\ events = [e \in EventIds |-> InitSeats]
  /\ orders = {}
  /\ nextId = 1
  /\ lock = [e \in EventIds |-> 0]
  /\ dbUrlSet \in BOOLEAN
  /\ pc = [p \in Procs |-> "new"]
  /\ req = [p \in Procs |-> NoReq]
  /\ row = [p \in Procs |-> NoRow]
  /\ orow = [p \in Procs |-> NoOrderRow]
  /\ txIns = [p \in Procs |-> {}]
  /\ txUpd = [p \in Procs |-> {}]
  /\ result = [p \in Procs |-> NoResult]
  /\ notified = [p \in Procs |-> "none"]
  /\ resp = [p \in Procs |-> NoResp]
  /\ refunds = [r \in RefundCodes |-> "submitted"]
  /\ refundSent = [r \in RefundCodes |-> 0]
  /\ answer = [p \in Procs |-> "none"]

\* ------------------------------ direct createOrderTool executions only
NextTool ==
  \/ \E p \in Bookers, e \in EventIds \cup {NumEvents + 1}, s \in SeatInputs :
       CallCreateOrderTool(p, e, s)
  \/ \E p \in Bookers : ToolSelect(p)
  \/ \E p \in Bookers : ToolInsert(p)
  \/ \E p \in Bookers : ToolUpdate(p)
  \/ \E p \in Bookers : TxCommit(p)
  \/ \E p \in Bookers : TxFail(p)

SpecTool == Init /\ [][NextTool]_vars

\* ------------------------------------- POST /api/create-order requests
NextApi ==
  \/ \E p \in Bookers, b \in CreateOrderBodies : ApiCreateOrder(p, b)
  \/ \E p \in Bookers : ToolSelect(p)
  \/ \E p \in Bookers : ToolInsert(p)
  \/ \E p \in Bookers : ToolUpdate(p)
  \/ \E p \in Bookers : TxCommit(p)
  \/ \E p \in Bookers : TxFail(p)
  \/ \E p \in Bookers, ch \in NotifyOutcomes, ad \in NotifyOutcomes :
       ApiNotify(p, ch, ad)

SpecApi == Init /\ [][NextApi]_vars

\* -------------------------------- POST /api/create-ticket-order requests
NextTicket ==
  \/ \E p \in Bookers, e \in EventIds \cup {NumEvents + 1}, s \in SeatInputs :
       TicketSelect(p, e, s)
  \/ \E p \in Bookers : TicketInsert(p)
  \/ \E p \in Bookers : TicketUpdate(p)
  \/ \E p \in Bookers : TicketFail(p)

SpecTicket == Init /\ [][NextTicket]_vars

\* ------------------------------------------- every order-creation path
\* Which row an INSERT writes does not depend on the event or the seats
\* asked for, only whether it runs does: one event that exists and one that
\* does not, one seatsCount the event can serve and one it cannot, one
\* seatsCount that parses and one that does not.
BookingEventInputs == {1, NumEvents + 1}
BookingSeatInputs == {1, InitSeats + 1}
BookingSeatsBodies == {[kind |-> "number", n |-> 1], [kind |-> "text", n |-> 0]}

NextBooking ==
  \/ \E p \in Bookers, e \in BookingEventInputs, s \in BookingSeatInputs :
       CallCreateOrderTool(p, e, s)
  \/ \E p \in Bookers : ToolSelect(p)
  \/ \E p \in Bookers : ToolInsert(p)
  \/ \E p \in Bookers : ToolUpdate(p)
  \/ \E p \in Bookers : TxCommit(p)
  \/ \E p \in Bookers : TxFail(p)
  \/ \E p \in Bookers, e \in BookingEventInputs, s \in BookingSeatInputs :
       TicketSelect(p, e, s)
  \/ \E p \in Bookers : TicketInsert(p)
  \/ \E p \in Bookers : TicketUpdate(p)
  \/ \E p \in Bookers : TicketFail(p)
  \/ \E p \in Bookers, ok \in BOOLEAN, found \in BOOLEAN, b \in BookingSeatsBodies :
       ApiCreateLinkOrder(p, ok, found, b)
  \/ \E p \in Bookers, ok \in BOOLEAN, found \in BOOLEAN, b \in BookingSeatsBodies :
       ApiCreateTemplateOrder(p, ok, found, b)

SpecBooking == Init /\ [][NextBooking]_vars

\* ------------------- the order lifecycle: bookings, then the admin's actions
\* order ids a request may name; not every one has a row
OrderIdInputs == 1..NumRequests

NextLifecycle ==
  \/ \E p \in Procs, e \in EventIds \cup {NumEvents + 1}, s \in SeatInputs :
       CallCreateOrderTool(p, e, s)
  \/ \E p \in Procs : ToolSelect(p)
  \/ \E p \in Procs : ToolInsert(p)
  \/ \E p \in Procs : ToolUpdate(p)
  \/ \E p \in Procs : TxCommit(p)
  \/ \E p \in Procs : TxFail(p)
  \/ \E p \in Procs, a \in ManageActions, id \in OrderIdInputs :
       ManageSelect(p, a, id)
  \/ \E p \in Procs : ManageConfirm(p)
  \/ \E p \in Procs : ManageReject(p)
  \/ \E p \in Procs : ManageCancel(p)
  \/ \E p \in Procs : ManageReturnSeats(p)
  \/ \E p \in Procs : ManageFail(p)
  \/ \E p \in Procs, id \in OrderIdInputs : MarkPaidSelect(p, id)
  \/ \E p \in Procs : MarkPaidUpdate(p)
  \/ \E p \in Procs : MarkPaidFail(p)

SpecLifecycle == Init /\ [][NextLifecycle]_vars

\* ------------------------- the admin's work, one operation after another
\* no handler is between two of its statements
Quiet == \A q \in Procs : pc[q] \in {"new", "done"}

\* seatsCount values of the bookings the admin then works on
AdminSeatInputs == {1, InitSeats}

\* the next operation starts when the one before it has returned
BookWhenQuiet(p, eventId, seatsCount) ==
  Quiet /\ CallCreateOrderTool(p, eventId, seatsCount)

ManageWhenQuiet(p, action, orderId) ==
  Quiet /\ ManageSelect(p, action, orderId)

CallbackWhenQuiet(p, cb, orderId) ==
  Quiet /\ CallbackSelect(p, cb, orderId)

NextAdmin ==
  \/ \E p \in Procs, e \in EventIds, s \in AdminSeatInputs :
       BookWhenQuiet(p, e, s)
  \/ \E p \in Procs : ToolSelect(p)
  \/ \E p \in Procs : ToolInsert(p)
  \/ \E p \in Procs : ToolUpdate(p)
  \/ \E p \in Procs : TxCommit(p)
  \/ \E p \in Procs : TxFail(p)
  \/ \E p \in Procs, a \in ManageActions, id \in OrderIdInputs :
       ManageWhenQuiet(p, a, id)
  \/ \E p \in Procs : ManageConfirm(p)
  \/ \E p \in Procs : ManageReject(p)
  \/ \E p \in Procs : ManageCancel(p)
  \/ \E p \in Procs : ManageReturnSeats(p)
  \/ \E p \in Procs : ManageFail(p)
  \/ \E p \in Procs, id \in OrderIdInputs, throws \in BOOLEAN :
       ApiGetTicket(p, id, throws)
  \/ \E p \in Procs, cb \in CallbackData, id \in OrderIdInputs :
       CallbackWhenQuiet(p, cb, id)
  \/ \E p \in Procs : CallbackUpdate(p)
  \/ \E p \in Procs : CallbackFail(p)

SpecAdmin == Init /\ [][NextAdmin]_vars

\* ------------------------------------ refund callbacks, side by side
NextRefund ==
  \/ \E p \in Procs, a \in RefundActions, c \in RefundCodeInputs :
       RefundSelect(p, a, c)
  \/ \E p \in Procs : RefundUpdate(p)
  \/ \E p \in Procs, sent \in BOOLEAN : RefundNotify(p, sent)
  \/ \E p \in Procs : RefundFail(p)

SpecRefund == Init /\ [][NextRefund]_vars

\* =================================================================== claims

\* C1: concurrent createOrderTool executions never drive an event's
\* available_seats below zero, and the seats of the orders they create never
\* add up to more than the event had available at the start.
C1_SeatsNeverOversold ==
  \A e \in EventIds :
    /\ events[e] >= 0
    /\ SumSeats(OrdersOf(e)) <= InitSeats

\* one execution holds the row lock with its order and decrement buffered
\* while another execution for the same event, which the remaining seats
\* cannot also serve, waits at its SELECT ... FOR UPDATE
C1_Witness ==
  \E p \in Procs, q \in Procs :
    /\ p # q
    /\ pc[p] = "commit" /\ txIns[p] # {} /\ txUpd[p] # {}
    /\ pc[q] = "select"
    /\ req[q].eventId = req[p].eventId
    /\ lock[req[p].eventId] = p
    /\ SeatsOrDefault(req[p].seatsCount) + SeatsOrDefault(req[q].seatsCount)
         > events[req[p].eventId]

\* C2: the order INSERT and the seat decrement of createOrderTool are applied
\* together or not at all: in every committed state each event's
\* available_seats is its initial value minus the seats of its orders, and a
\* transaction that fails persists neither an order row nor a decrement.
C2_SeatsMatchOrders ==
  \A e \in EventIds : events[e] + SumSeats(OrdersOf(e)) = InitSeats

C2_FailedTxPersistsNothing ==
  \A p \in Procs :
    (result[p].reason # "error" /\ result'[p].reason = "error")
      => /\ orders' = orders
         /\ events' = events
         /\ \A o \in orders' : txIns[p] = {} \/ o \notin txIns[p]

C2_Atomic == [](C2_SeatsMatchOrders) /\ [][C2_FailedTxPersistsNothing]_vars

\* a transaction failed after its INSERT: the id was handed out, the request
\* ended in the error result, and no order row exists
C2_Witness ==
  \E p \in Procs :
    /\ pc[p] = "done"
    /\ result[p].reason = "error"
    /\ nextId = 2
    /\ orders = {}
    /\ \A q \in Procs : txIns[q] = {}

\* C9: when the event does not exist, or has fewer available seats than the
\* request asks for, createOrderTool returns success=false and neither the
\* orders table nor any available_seats changes.
C9_RefusalStep ==
  \A p \in Procs :
    LET e == req[p].eventId IN
    /\ ( /\ pc[p] = "select" /\ pc'[p] # "select"
         /\ result'[p].reason # "error"
         /\ (e \notin EventIds \/ events[e] < req[p].seatsCount) )
         => /\ pc'[p] = "commit"
            /\ ~result'[p].success
            /\ result'[p].reason \in {"notfound", "noseats"}
            /\ txIns'[p] = {} /\ txUpd'[p] = {}
            /\ orders' = orders /\ events' = events
    /\ ( /\ pc[p] = "commit" /\ pc'[p] = "done"
         /\ result[p].reason \in {"notfound", "noseats"} )
         => /\ ~result'[p].success
            /\ orders' = orders /\ events' = events

C9_RefusalChangesNothing == [][C9_RefusalStep]_vars

\* one execution was refused for an unknown event and another for lack of
\* seats, and the database is as it was at the start
C9_Witness ==
  \E p \in Procs, q \in Procs :
    /\ pc[p] = "done" /\ result[p].reason = "notfound"
    /\ pc[q] = "done" /\ result[q].reason = "noseats"
    /\ orders = {}
    /\ \A e \in EventIds : events[e] = InitSeats

\* C10: a successful createOrderTool execution adds exactly one order row,
\* with seats_count the requested seatsCount (1 when the request gives 0 or
\* none), lowers that event's available_seats by seats_count and leaves every
\* other event's available_seats unchanged.
C10_SuccessStep ==
  \A p \in Procs :
    ( /\ req[p].op = "createOrder"
      /\ pc[p] = "commit" /\ pc'[p] = "done" /\ result'[p].success )
      => \E o \in orders' :
           /\ o \notin orders
           /\ orders' = orders \cup {o}
           /\ o.id = result'[p].orderId
           /\ o.event_id = req[p].eventId
           /\ o.seats_count =
                (IF req[p].seatsCount = 0 THEN 1 ELSE req[p].seatsCount)
           /\ events'[o.event_id] = events[o.event_id] - o.seats_count
           /\ \A e \in EventIds \ {o.event_id} : events'[e] = events[e]

C10_SuccessAddsOneOrder == [][C10_SuccessStep]_vars

\* an execution succeeded: its order is the only row, the order's event has
\* that many seats less and the other events have all their seats
C10_Witness ==
  \E p \in Procs :
    /\ pc[p] = "done" /\ result[p].success /\ result[p].seatsCount = 1
    /\ \E o \in orders :
         /\ o.id = result[p].orderId
         /\ o.seats_count = 1
         /\ orders = {o}
         /\ events[o.event_id] = InitSeats - 1
         /\ \A e \in EventIds \ {o.event_id} : events[e] = InitSeats

\* C5: once POST /api/create-order has created an order, the order stays
\* committed and the handler answers with the successful creation result,
\* whether the notifications succeed, return false or throw.
C5_NotificationNeverFailsRequest ==
  \A p \in Procs :
    notified[p] # "none"
      => /\ pc[p] = "done"
         /\ resp[p].status = HttpOk
         /\ resp[p].success
         /\ \E o \in orders : o.id = resp[p].orderId

\* a notification threw after the order was committed, and the request was
\* answered 200 with success=true
C5_Witness ==
  \E p \in Procs :
    /\ notified[p] = "throw"
    /\ resp[p].status = HttpOk /\ resp[p].success
    /\ \E o \in orders : o.id = resp[p].orderId

\* C7: whenever POST /api/create-order does not create an order, the JSON
\* answer with success=false is carried by a 4xx or 5xx status, never a 2xx.
C7_FailureHasErrorStatus ==
  \A p \in Procs :
    (req[p].via = "api" /\ pc[p] = "done" /\ ~resp[p].success)
      => resp[p].status >= HttpBadRequest

\* C6: concurrent POST /api/create-ticket-order requests for one event never
\* drive available_seats below zero, and the seats of the orders they create
\* never exceed the seats that were available.
C6_TicketSeatsNeverOversold ==
  \A e \in EventIds :
    /\ events[e] >= 0
    /\ SumSeats(OrdersOf(e)) <= InitSeats

\* C8: every order-creation path inserts its order with status 'pending' and
\* payment_status 'pending'; no order is created paid, confirmed, rejected or
\* cancelled.
C8_NewOrderStep ==
  \A o \in orders' \ orders :
    o.status = "pending" /\ o.payment_status = "pending"

C3_StatusRank(st) ==
  CASE st = "pending" -> 0
    [] st = "waiting_confirmation" -> 1
    [] st \in {"confirmed", "rejected"} -> 2
    [] st = "cancelled" -> 3
    [] OTHER -> 0

\* C3: an order's status only moves forward: no operation moves an order that
\* is confirmed, rejected or cancelled back to an earlier status, and the
\* status confirmed or rejected is only reached from pending or
\* waiting_confirmation.
C3_StatusStep ==
  \A o \in orders : \A n \in orders' :
    (n.id = o.id /\ n.status # o.status)
      => /\ C3_StatusRank(o.status) >= 2
             => C3_StatusRank(n.status) >= C3_StatusRank(o.status)
         /\ n.status \in {"confirmed", "rejected"}
             => o.status \in {"pending", "waiting_confirmation"}

C3_StatusOnlyMovesForward == [][C3_StatusStep]_vars

\* C4: every operation applies its writes in one step: the step that marks an
\* order rejected or cancelled-with-refund also returns its seats to the
\* event, and the step that adds an order for an event also takes its seats.
C4_WritesTogetherStep ==
  /\ \A o \in orders : \A n \in orders' :
       ( /\ n.id = o.id
         /\ o.status # "rejected" /\ n.status = "rejected"
         /\ o.event_id \in EventIds )
         => events'[o.event_id] = events[o.event_id] + o.seats_count
  /\ \A n \in orders' \ orders :
       ( /\ n.event_id \in EventIds
         /\ \A o \in orders : o.id # n.id )
         => events'[n.event_id] = events[n.event_id] - n.seats_count

C4_SingleStepMutation == [][C4_WritesTogetherStep]_vars
\* C11: manageOrderTool reject_payment on an existing order sets both status
\* and payment_status of that order to 'rejected' and nothing else in the
\* orders table, and then adds exactly the order's seats_count to its event's
\* available_seats and to no other event's; when it returns success the order
\* is rejected and its seats are back.
C11_RejectStep ==
  \A p \in Procs :
    req[p].action = "reject_payment" =>
      LET o == CHOOSE x \in orders : x.id = orow[p].id IN
      /\ (pc[p] = "mupdate" /\ pc'[p] = "mseats")
           => /\ orders' = (orders \ {o}) \cup
                   {[o EXCEPT !.status = "rejected",
                              !.payment_status = "rejected"]}
              /\ events' = events
      /\ (pc[p] # "mseats" /\ pc'[p] = "mseats") => pc[p] = "mupdate"
      /\ (pc'[p] = "done" /\ result'[p].success)
           => /\ pc[p] = "mseats"
              /\ o.status = "rejected" /\ o.payment_status = "rejected"
              /\ orders' = orders
              /\ events' = [events EXCEPT ![o.event_id] = @ + o.seats_count]

C11_RejectReturnsSeats == [][C11_RejectStep]_vars

\* an order for more than one seat was rejected: the tool returned success,
\* the order is rejected/rejected and the event has all its seats again
C11_Witness ==
  \E p \in Procs : \E o \in orders :
    /\ pc[p] = "done" /\ result[p].success /\ result[p].reason = "rejected"
    /\ o.id = result[p].orderId
    /\ o.seats_count > 1
    /\ o.status = "rejected" /\ o.payment_status = "rejected"
    /\ events[o.event_id] = InitSeats
\* C12: manageOrderTool cancel sets the order's status to 'cancelled' and
\* leaves its payment_status; it then returns the order's seats to the event
\* exactly when that payment_status is not 'rejected'.  Cancelling an order
\* whose payment was rejected changes no available_seats.
C12_CancelStep ==
  \A p \in Procs :
    req[p].action = "cancel" =>
      LET o == CHOOSE x \in orders : x.id = orow[p].id IN
      /\ (pc[p] = "mupdate" /\ pc'[p] # "mupdate" /\ result'[p].reason # "error")
           => /\ orders' = (orders \ {o}) \cup {[o EXCEPT !.status = "cancelled"]}
              /\ events' = events
              /\ IF o.payment_status = "rejected"
                   THEN pc'[p] = "done" /\ result'[p].success
                   ELSE pc'[p] = "mseats"
      /\ (pc[p] = "mseats" /\ pc'[p] = "done" /\ result'[p].success)
           => /\ o.status = "cancelled" /\ o.payment_status # "rejected"
              /\ orders' = orders
              /\ events' = [events EXCEPT ![o.event_id] = @ + o.seats_count]
      /\ (pc'[p] # pc[p] /\ o.payment_status = "rejected") => events' = events

C12_CancelReturnsUnlessRejected == [][C12_CancelStep]_vars

\* the only order was rejected and then cancelled, both with success: it is
\* cancelled, its payment_status is still rejected, and the event has
\* exactly its initial seats, so the seats came back once
C12_Witness ==
  \E p \in Procs, q \in Procs : \E o \in orders :
    /\ orders = {o}
    /\ pc[p] = "done" /\ result[p].success /\ result[p].reason = "rejected"
    /\ pc[q] = "done" /\ result[q].success /\ result[q].reason = "cancelled"
    /\ result[p].orderId = o.id /\ result[q].orderId = o.id
    /\ o.status = "cancelled" /\ o.payment_status = "rejected"
    /\ events[o.event_id] = InitSeats
\* C13: seat conservation.  Whenever every operation issued so far has
\* completed without an error, each event's available_seats plus the
\* seats_count of its orders that are neither rejected nor cancelled equals
\* the event's initial available_seats, and available_seats does not exceed
\* its initial value.
C13_SeatsConserved ==
  (Quiet /\ \A p \in Procs : result[p].reason # "error")
    => \A e \in EventIds :
         /\ events[e] + SumSeats({o \in OrdersOf(e) :
                                    o.status \notin {"rejected", "cancelled"}})
              = InitSeats
         /\ events[e] <= InitSeats
\* C14: GET /api/ticket/:orderCode hands out a ticket only for an order whose
\* payment_status is 'confirmed'; unless a query fails, it answers 404 for a
\* code no order has, and success=true, pending=true without a ticket for an
\* order in any other payment state.
C14_TicketStep ==
  \A p \in Procs, id \in OrderIdInputs, throws \in BOOLEAN :
    ApiGetTicket(p, id, throws) =>
      LET r == resp'[p] IN
      /\ r.ticket # 0
           => \E o \in orders :
                o.id = id /\ o.payment_status = "confirmed" /\ r.ticket = id
      /\ r.status # HttpServerError
           => IF \A o \in orders : o.id # id
                THEN r.status = HttpNotFound /\ ~r.success /\ r.ticket = 0
              ELSE IF \E o \in orders :
                        o.id = id /\ o.payment_status # "confirmed"
                THEN /\ r.status = HttpOk /\ r.success /\ r.pending
                     /\ r.ticket = 0
                ELSE /\ r.status = HttpOk /\ r.success /\ ~r.pending
                     /\ r.ticket = id

C14_TicketOnlyWhenConfirmed == [][C14_TicketStep]_vars

\* an order was booked and confirmed, and its ticket was handed out
C14_Witness ==
  \E p \in Procs :
    /\ pc[p] = "done" /\ req[p].op = "ticket"
    /\ resp[p].status = HttpOk /\ ~resp[p].pending
    /\ resp[p].ticket # 0
    /\ \E o \in orders : o.id = resp[p].ticket /\ o.payment_status = "confirmed"
\* C15: the two Telegram callback handlers are equivalent on order callbacks:
\* a run of the /webhooks/telegram/callback handler on confirm_<id> or
\* reject_<id> leaves the orders table (status, payment_status) and every
\* available_seats as a run of the /webhooks/telegram/action handler on the
\* same callback data from the same database state leaves them.
C15_CallbackStep ==
  \A p \in Procs :
    (pc[p] = "cbupdate" /\ pc'[p] = "done" /\ answer'[p] # "error")
      => <<orders', events'>> = ActionHandlerDb(req[p].action, req[p].orderId)

C15_HandlersAgree == [][C15_CallbackStep]_vars

\* a run of manageOrderTool from a quiet state ends in the database ManageDb
\* computes for the state it started in
ManageDbIsWhatManageDoes ==
  [][\A p \in Procs :
       /\ (pc[p] = "mupdate" /\ req[p].action = "confirm_payment"
              /\ pc'[p] = "done" /\ result'[p].success)
            => <<orders', events'>> = ManageDb("confirm_payment", orow[p].id)
       /\ (pc[p] = "mupdate" /\ req[p].action = "reject_payment"
              /\ pc'[p] = "mseats")
            => /\ orders' = ManageDb("reject_payment", orow[p].id)[1]
               /\ EventsPlus(orow[p].event_id, orow[p].seats_count)
                    = ManageDb("reject_payment", orow[p].id)[2]]_vars
\* C16: refund callbacks are idempotent: a refund_approve_<code> or
\* refund_reject_<code> callback that arrives when the refund link's status
\* is already 'approved' or 'rejected' leaves the refund_links row unchanged,
\* sends no channel notification, and only answers the callback query that
\* the refund was already processed.
C16_LaterCallbackStep ==
  \A p \in Procs :
    ( /\ pc[p] = "new" /\ pc'[p] # "new" /\ req'[p].op = "refund"
      /\ req'[p].refundCode \in RefundCodes
      /\ refunds[req'[p].refundCode] \in {"approved", "rejected"} )
      => /\ pc'[p] = "done"
         /\ answer'[p] = "already"
         /\ refunds' = refunds
         /\ refundSent' = refundSent

C16_RefundIdempotent == [][C16_LaterCallbackStep]_vars

\* a refund was rejected and notified once, and a later approve callback for
\* it was only told that it was already processed
C16_Witness ==
  \E p \in Procs, c \in RefundCodes :
    /\ pc[p] = "done" /\ answer[p] = "already"
    /\ req[p].refundCode = c /\ req[p].action = "approve"
    /\ refunds[c] = "rejected"
    /\ refundSent[c] = 1
    /\ \A q \in Procs : pc[q] \in {"new", "done"}

\* C17: a refund is decided at most once even under concurrency: of the
\* callback requests for one refund code at most one writes the status, and
\* at most one approved-or-rejected channel notification is sent for it.
C17_DecidedAtMostOnce ==
  \A c \in RefundCodes :
    /\ Cardinality({p \in Procs :
                       /\ req[p].op = "refund" /\ req[p].refundCode = c
                       /\ \/ pc[p] = "rnotify"
                          \/ answer[p] \in {"approved", "rejected"}}) <= 1
    /\ refundSent[c] <= 1
====
